---------------------------- MODULE Spec2Model ----------------------------
(***************************************************************************)
(* Model of the semtraits crate: the traits Share, OrClosed and OrPoisoned *)
(* (src/src/lib.rs) and their implementations (src/src/impls.rs), together *)
(* with the host primitives whose results they classify: std and tokio     *)
(* channels, std::sync::Mutex and Arc.                                     *)
(*                                                                         *)
(* A behaviour is one program using the crate.  `flavor` fixes which       *)
(* primitive the program uses; the processes are its threads or tasks.     *)
(* A call such as tx.send(v).or_closed() is two steps: the host operation  *)
(* produces a result (res[p]), then the trait method consumes it (out[p]). *)
(* A panic marks the thread "panicked"; the unwinding that drops what the  *)
(* thread's frames own is the step Unwind.                                 *)
(***************************************************************************)
EXTENDS Naturals, Sequences, FiniteSets, TLC

\* ---------------------------------------------------------------- bounds
NProc == 3
MaxSends == 2
MaxAlloc == 2
MaxWrites == 2

Procs == 1..NProc
\* The payloads: the 10 of the doc tests and a second value to tell two
\* messages apart.
Values == {10, 20}
Unit == 0

\* ------------------------------------------------------------- constants
SEND_PANIC_MESSAGE == "sending with disconnected receiver"
RECV_PANIC_MESSAGE == "receiving with no senders"
POISON_PANIC_MESSAGE == "lock poisoned"

\* The error types of the host libraries that appear in impls.rs.
StdSendError == "std::sync::mpsc::SendError"
StdRecvError == "std::sync::mpsc::RecvError"
PoisonError == "std::sync::PoisonError"
TokioMpscSendError == "tokio::sync::mpsc::error::SendError"
WatchSendError == "tokio::sync::watch::error::SendError"
WatchRecvError == "tokio::sync::watch::error::RecvError"
OneshotRecvError == "tokio::sync::oneshot::error::RecvError"

BroadcastSendError == "tokio::sync::broadcast::error::SendError"
BroadcastRecvError == "tokio::sync::broadcast::error::RecvError"

ChannelFlavors == {"std_mpsc", "tokio_mpsc", "tokio_watch", "tokio_oneshot"}
Flavors == ChannelFlavors \cup {"std_mutex", "arc", "types"}

VARIABLES
    flavor,     \* the primitive this program uses
    handle,     \* handle[p]: the handle p owns: its kind and what it points to
    pc,         \* pc[p]: "idle", "unwrap", "holding", "panicked"
    res,        \* res[p]: the result of p's last host operation
    out,        \* out[p]: what the trait method made of res[p]
    buf,        \* the channel's queue (watch: the one current value)
    unseen,     \* watch: the receivers that have not seen the current value
    sentLog,    \* history: every value a queue accepted, in order
    sentBy,     \* history: the processes whose send a queue accepted
    received,   \* history: every value a receive returned, in order
    erred,      \* history: erred[op] once an `op` on the channel returned Err
    okAfterErr, \* history: an `op` returned Ok after an `op` had returned Err
    strong,     \* strong[a]: the strong count of Arc allocation a
    shared,     \* history: the last share: the original and who got the new handle
    mval,       \* the integer the mutex protects
    poisoned,   \* the mutex's poison flag
    holder,     \* the process that has the mutex locked, or 0
    wlog,       \* history: the writes made through guards, in order
    crashed,    \* history: a thread has panicked while it held a guard
    resolved    \* the channel operation whose result type was last resolved

chanVars == <<buf, unseen, sentLog, sentBy, received, erred, okAfterErr>>
arcVars == <<strong, shared>>
lockVars == <<mval, poisoned, holder, wlog, crashed>>
vars == <<flavor, handle, pc, res, out, chanVars, arcVars, lockVars, resolved>>

\* ------------------------------------------------------- result values
NoRes == [op |-> "none", tag |-> "None", val |-> Unit, ety |-> "none"]
Ok(op, v, ety) == [op |-> op, tag |-> "Ok", val |-> v, ety |-> ety]
Err(op, v, ety) == [op |-> op, tag |-> "Err", val |-> v, ety |-> ety]

NoOut == [tag |-> "None", val |-> Unit, text |-> ""]
Return(v) == [tag |-> "Return", val |-> v, text |-> ""]
Panic(text) == [tag |-> "Panic", val |-> Unit, text |-> text]

\* {:?} of each error type: the non-exhaustive struct form for the errors
\* that wrap a payload, the derived form for the others.
DebugFmt(ety) ==
    CASE ety = StdSendError -> "SendError { .. }"
      [] ety = StdRecvError -> "RecvError"
      [] ety = PoisonError -> "PoisonError { .. }"
      [] ety = TokioMpscSendError -> "SendError { .. }"
      [] ety = WatchSendError -> "SendError { .. }"
      [] ety = WatchRecvError -> "RecvError(())"
      [] ety = OneshotRecvError -> "RecvError(())"

\* Result::expect: the value of Ok, or a panic whose message is
\* "{msg}: {error:?}".
expect(r, msg) ==
    IF r.tag = "Ok" THEN Return(r.val)
    ELSE Panic(msg \o ": " \o DebugFmt(r.ety))

\* Variants of the methods below, each with one slip in it.
or_closed_std_send_recv_message(r) == expect(r, RECV_PANIC_MESSAGE)
or_closed_std_recv_default(r) == Return(Unit)
or_closed_std_recv_inverted(r) ==
    IF r.tag = "Ok" THEN Panic(RECV_PANIC_MESSAGE \o ": " \o DebugFmt(r.ety))
    ELSE Return(r.val)
or_closed_watch_recv_send_message(r) == expect(r, SEND_PANIC_MESSAGE)
or_poisoned_inverted(r) ==
    IF r.tag = "Ok" THEN Panic(POISON_PANIC_MESSAGE \o ": " \o DebugFmt(r.ety))
    ELSE Return(r.val)
or_poisoned_into_inner(r) == Return(r.val)

or_closed_std_send(r) == expect(r, SEND_PANIC_MESSAGE)
or_closed_std_recv(r) == expect(r, RECV_PANIC_MESSAGE)
or_poisoned(r) == expect(r, POISON_PANIC_MESSAGE)
or_closed_tokio_mpsc_send(r) == expect(r, SEND_PANIC_MESSAGE)
or_closed_watch_send(r) == expect(r, SEND_PANIC_MESSAGE)
or_closed_watch_recv(r) == expect(r, RECV_PANIC_MESSAGE)
or_closed_oneshot_recv(r) == expect(r, RECV_PANIC_MESSAGE)

\* Trait resolution: the impl is selected by the error type of the Result.
OrClosedErrTypes ==
    {StdSendError, StdRecvError, TokioMpscSendError, WatchSendError,
     WatchRecvError, OneshotRecvError}

or_closed(r) ==
    CASE r.ety = StdSendError -> or_closed_std_send(r)
      [] r.ety = StdRecvError -> or_closed_std_recv(r)
      [] r.ety = TokioMpscSendError -> or_closed_tokio_mpsc_send(r)
      [] r.ety = WatchSendError -> or_closed_watch_send(r)
      [] r.ety = WatchRecvError -> or_closed_watch_recv(r)
      [] r.ety = OneshotRecvError -> or_closed_oneshot_recv(r)

\* ------------------------------------------------------------- handles
NoHandle == [kind |-> "none", id |-> 0]
Tx == [kind |-> "tx", id |-> 1]
Rx == [kind |-> "rx", id |-> 1]
ArcTo(a) == [kind |-> "arc", id |-> a]
Allocs == 1..MaxAlloc
NoShare == [from |-> NoHandle, to |-> 0]

\* A variant of share that makes a deep copy: a handle to another allocation.
share_deep(h) ==
    IF h.kind = "arc" THEN [h EXCEPT !.id = (h.id % MaxAlloc) + 1] ELSE h

\* Clone of a shared handle: a second handle to the same state.
clone(h) == h

\* Share::share, the provided method; no impl overrides it.
share(h) == clone(h)

\* Arc::ptr_eq
ptr_eq(a, b) == a.id = b.id

\* The handle kinds of each flavor that implement Share.
Shareable ==
    CASE flavor \in {"std_mpsc", "tokio_mpsc"} -> {"tx"}
      [] flavor = "tokio_watch" -> {"tx", "rx"}
      [] flavor = "arc" -> {"arc"}
      [] OTHER -> {}

Senders == {p \in Procs : handle[p].kind = "tx"}
Receivers == {p \in Procs : handle[p].kind = "rx"}

SendErrorType ==
    CASE flavor = "std_mpsc" -> StdSendError
      [] flavor = "tokio_mpsc" -> TokioMpscSendError
      [] flavor = "tokio_watch" -> WatchSendError

RecvErrorType ==
    CASE flavor = "std_mpsc" -> StdRecvError
      [] flavor = "tokio_watch" -> WatchRecvError
      [] flavor = "tokio_oneshot" -> OneshotRecvError

\* let (tx, rx) = channel(), or watch::channel(10): process 1 keeps rx,
\* process 2 tx.
\* let foo = Arc::new(..): process 1 holds the first allocation.
InitHandle(f, p) ==
    CASE f \in ChannelFlavors ->
            (IF p = 1 THEN Rx ELSE IF p = 2 THEN Tx ELSE NoHandle)
      [] f = "arc" -> (IF p = 1 THEN ArcTo(1) ELSE NoHandle)
      [] OTHER -> NoHandle

NoneResolved == [op |-> "none", payload |-> "none", avail |-> FALSE]

Init ==
    /\ flavor \in Flavors
    /\ handle = [p \in Procs |-> InitHandle(flavor, p)]
    /\ pc = [p \in Procs |-> "idle"]
    /\ res = [p \in Procs |-> NoRes]
    /\ out = [p \in Procs |-> NoOut]
    /\ buf = IF flavor = "tokio_watch" THEN <<10>> ELSE <<>>
    /\ unseen = {}
    /\ sentLog = <<>>
    /\ sentBy = {}
    /\ received = <<>>
    /\ erred = [op \in {"send", "recv"} |-> FALSE]
    /\ okAfterErr = FALSE
    /\ strong = [a \in Allocs |-> IF flavor = "arc" /\ a = 1 THEN 1 ELSE 0]
    /\ shared = NoShare
    /\ mval = 1
    /\ poisoned = FALSE
    /\ holder = 0
    /\ wlog = <<>>
    /\ crashed = FALSE
    /\ resolved = NoneResolved

Note(op, r) ==
    /\ erred' = [erred EXCEPT ![op] = @ \/ r.tag = "Err"]
    /\ okAfterErr' = (okAfterErr \/ (erred[op] /\ r.tag = "Ok"))

\* tx.send(v): Err iff no receiver is left.
Send(p, v) ==
    /\ flavor \in {"std_mpsc", "tokio_mpsc", "tokio_watch"}
    /\ pc[p] = "idle" /\ handle[p].kind = "tx"
    /\ flavor # "tokio_watch" => Len(buf) + Len(received) < MaxSends
    /\ LET r == IF Receivers = {} THEN Err("send", Unit, SendErrorType)
                ELSE Ok("send", Unit, SendErrorType)
       IN  /\ res' = [res EXCEPT ![p] = r]
           /\ buf' = IF r.tag = "Err" THEN buf
                     ELSE IF flavor = "tokio_watch" THEN <<v>>
                     ELSE Append(buf, v)
           /\ unseen' = IF r.tag = "Ok" /\ flavor = "tokio_watch"
                        THEN Receivers ELSE unseen
           /\ sentLog' = IF r.tag = "Ok" /\ flavor # "tokio_watch"
                         THEN Append(sentLog, v) ELSE sentLog
           /\ sentBy' = IF r.tag = "Ok" /\ flavor # "tokio_watch"
                        THEN sentBy \cup {p} ELSE sentBy
           /\ Note("send", r)
    /\ pc' = [pc EXCEPT ![p] = "unwrap"]
    /\ out' = [out EXCEPT ![p] = NoOut]
    /\ UNCHANGED <<flavor, handle, received, arcVars, lockVars, resolved>>

\* tx.send(v) of a oneshot sender: consumes the sender and returns
\* Result<(), T>, on which or_closed is not offered; the caller handles it.
OneshotSend(p, v) ==
    /\ flavor = "tokio_oneshot"
    /\ pc[p] = "idle" /\ handle[p].kind = "tx"
    /\ handle' = [handle EXCEPT ![p] = NoHandle]
    /\ IF Receivers = {}
       THEN UNCHANGED <<buf, sentLog, sentBy>>
       ELSE /\ buf' = Append(buf, v)
            /\ sentLog' = Append(sentLog, v)
            /\ sentBy' = sentBy \cup {p}
    /\ UNCHANGED <<flavor, pc, res, out, unseen, received, erred,
                   okAfterErr, arcVars, lockVars, resolved>>

\* rx.recv() (std mpsc), rx.changed().await (watch), rx.await (oneshot).
\* The call waits while nothing is there and a sender is left.
Recv(p) ==
    /\ flavor \in {"std_mpsc", "tokio_watch", "tokio_oneshot"}
    /\ pc[p] = "idle" /\ handle[p].kind = "rx"
    /\ LET ready == IF flavor = "tokio_watch" THEN p \in unseen
                    ELSE buf # <<>>
           r == IF ready
                THEN Ok("recv",
                        IF flavor = "tokio_watch" THEN Unit ELSE Head(buf),
                        RecvErrorType)
                ELSE Err("recv", Unit, RecvErrorType)
       IN  /\ ready \/ Senders = {}
           /\ res' = [res EXCEPT ![p] = r]
           /\ buf' = IF ready /\ flavor # "tokio_watch" THEN Tail(buf) ELSE buf
           /\ unseen' = unseen \ {p}
           /\ received' = IF ready /\ flavor # "tokio_watch"
                          THEN Append(received, Head(buf)) ELSE received
           /\ Note("recv", r)
    /\ handle' = IF flavor = "tokio_oneshot"
                 THEN [handle EXCEPT ![p] = NoHandle] ELSE handle
    /\ pc' = [pc EXCEPT ![p] = "unwrap"]
    /\ out' = [out EXCEPT ![p] = NoOut]
    /\ UNCHANGED <<flavor, sentLog, sentBy, arcVars, lockVars,
                   resolved>>

\* rx.recv().await of a tokio mpsc receiver returns Option<T>, on which
\* or_closed is not offered; the caller matches on it.
OptionRecv(p) ==
    /\ flavor = "tokio_mpsc"
    /\ pc[p] = "idle" /\ handle[p].kind = "rx"
    /\ buf # <<>>
    /\ buf' = Tail(buf)
    /\ received' = Append(received, Head(buf))
    /\ UNCHANGED <<flavor, handle, pc, res, out, unseen, sentLog,
                   sentBy, erred, okAfterErr, arcVars, lockVars, resolved>>

\* tx.subscribe() of a watch sender: a new receiver, which has seen the
\* current value.
Subscribe(p, q) ==
    /\ flavor = "tokio_watch"
    /\ pc[p] = "idle" /\ handle[p].kind = "tx"
    /\ pc[q] = "idle" /\ handle[q] = NoHandle
    /\ handle' = [handle EXCEPT ![q] = Rx]
    /\ UNCHANGED <<flavor, pc, res, out, buf, unseen, sentLog, sentBy, received,
                   erred, okAfterErr, arcVars, lockVars, resolved>>

\* A variant of CallOrClosed that sends again when the send failed.
CallOrClosedRetry(p) ==
    /\ pc[p] = "unwrap" /\ res[p].op \in {"send", "recv"}
    /\ LET o == or_closed(res[p])
           again == res[p].op = "send" /\ o.tag = "Panic"
       IN  /\ out' = [out EXCEPT ![p] = IF again THEN Return(Unit) ELSE o]
           /\ pc' = [pc EXCEPT ![p] = IF again \/ o.tag = "Return" THEN "idle"
                                      ELSE "panicked"]
           /\ buf' = IF again THEN Append(buf, res[p].val) ELSE buf
    /\ UNCHANGED <<flavor, handle, res, unseen, sentLog, sentBy, received,
                   erred, okAfterErr, arcVars, lockVars, resolved>>

\* The result of a send or receive is handed to or_closed.
CallOrClosed(p) ==
    /\ pc[p] = "unwrap" /\ res[p].op \in {"send", "recv"}
    /\ LET o == or_closed(res[p])
       IN  /\ out' = [out EXCEPT ![p] = o]
           /\ pc' = [pc EXCEPT ![p] = IF o.tag = "Return" THEN "idle"
                                      ELSE "panicked"]
    /\ UNCHANGED <<flavor, handle, res, chanVars, arcVars, lockVars, resolved>>

\* x.share(), also spelled Type::share(&x): q receives the new handle.
Share(p, q) ==
    /\ pc[p] = "idle" /\ handle[p].kind \in Shareable
    /\ pc[q] = "idle" /\ handle[q] = NoHandle
    /\ LET n == share(handle[p])
       IN  /\ handle' = [handle EXCEPT ![q] = n]
           /\ strong' = IF n.kind = "arc"
                        THEN [strong EXCEPT ![n.id] = @ + 1] ELSE strong
    /\ unseen' = IF p \in unseen THEN unseen \cup {q} ELSE unseen
    /\ shared' = [from |-> handle[p], to |-> q]
    /\ UNCHANGED <<flavor, pc, res, out, buf, sentLog, sentBy, received,
                   erred, okAfterErr, lockVars, resolved>>

\* Arc::new: a fresh allocation with strong count 1.
ArcNew(p, a) ==
    /\ flavor = "arc"
    /\ pc[p] = "idle" /\ handle[p] = NoHandle
    /\ strong[a] = 0
    /\ handle' = [handle EXCEPT ![p] = ArcTo(a)]
    /\ strong' = [strong EXCEPT ![a] = 1]
    /\ UNCHANGED <<flavor, pc, res, out, chanVars, shared, lockVars, resolved>>

\* The handle goes out of scope.
Drop(p) ==
    /\ pc[p] = "idle" /\ handle[p] # NoHandle
    /\ handle' = [handle EXCEPT ![p] = NoHandle]
    /\ strong' = IF handle[p].kind = "arc"
                 THEN [strong EXCEPT ![handle[p].id] = @ - 1] ELSE strong
    /\ shared' = IF shared.to = p THEN NoShare ELSE shared
    /\ res' = [res EXCEPT ![p] = NoRes]
    /\ out' = [out EXCEPT ![p] = NoOut]
    /\ unseen' = unseen \ {p}
    /\ UNCHANGED <<flavor, pc, buf, sentLog, sentBy, received, erred,
                   okAfterErr, lockVars, resolved>>

\* A panicking thread unwinds: what its frames own is dropped.  A guard
\* dropped while the thread panics poisons its mutex.
Unwind(p) ==
    /\ pc[p] = "panicked"
    /\ pc' = [pc EXCEPT ![p] = "idle"]
    /\ handle' = [handle EXCEPT ![p] = NoHandle]
    /\ IF holder = p
       THEN holder' = 0 /\ poisoned' = TRUE
       ELSE UNCHANGED <<holder, poisoned>>
    /\ res' = [res EXCEPT ![p] = NoRes]
    /\ out' = [out EXCEPT ![p] = NoOut]
    /\ unseen' = unseen \ {p}
    /\ strong' = IF handle[p].kind = "arc"
                 THEN [strong EXCEPT ![handle[p].id] = @ - 1] ELSE strong
    /\ shared' = IF shared.to = p THEN NoShare ELSE shared
    /\ UNCHANGED <<flavor, buf, sentLog, sentBy, received, erred, okAfterErr,
                   mval, wlog, crashed, resolved>>

\* ---------------------------------------------------------------- mutex
Guard == Unit
Writes == {"set2", "add10"}

\* *data = 2  and  *guard += 10
Apply(w, x) == IF w = "set2" THEN 2 ELSE x + 10

\* The value an integer that starts at 1 has after the writes of log.
RECURSIVE Eval(_)
Eval(log) ==
    IF log = <<>> THEN 1 ELSE Apply(log[Len(log)], Eval(SubSeq(log, 1, Len(log) - 1)))

\* mutex.lock(): waits for the mutex, then Err(PoisonError(guard)) when
\* the mutex is poisoned and Ok(guard) otherwise.
Lock(p) ==
    /\ flavor = "std_mutex"
    /\ pc[p] = "idle" /\ holder = 0
    /\ holder' = p
    /\ res' = [res EXCEPT ![p] = IF poisoned THEN Err("lock", Guard, PoisonError)
                                 ELSE Ok("lock", Guard, PoisonError)]
    /\ pc' = [pc EXCEPT ![p] = "unwrap"]
    /\ out' = [out EXCEPT ![p] = NoOut]
    /\ UNCHANGED <<flavor, handle, chanVars, arcVars, mval, poisoned, wlog,
                   crashed, resolved>>

\* The result of lock() is handed to or_poisoned.  On a panic the result,
\* and the guard in it, is dropped by the unwinding of expect's own frame.
CallOrPoisoned(p) ==
    /\ pc[p] = "unwrap" /\ res[p].op = "lock"
    /\ LET o == or_poisoned(res[p])
       IN  /\ out' = [out EXCEPT ![p] = o]
           /\ pc' = [pc EXCEPT ![p] = IF o.tag = "Return" THEN "holding"
                                      ELSE "panicked"]
           /\ IF o.tag = "Return"
              THEN UNCHANGED <<holder, poisoned>>
              ELSE holder' = 0 /\ poisoned' = TRUE
    /\ UNCHANGED <<flavor, handle, res, chanVars, arcVars, mval, wlog,
                   crashed, resolved>>

\* A write through the guard.
Write(p, w) ==
    /\ pc[p] = "holding"
    /\ Len(wlog) < MaxWrites
    /\ mval' = Apply(w, mval)
    /\ wlog' = Append(wlog, w)
    /\ UNCHANGED <<flavor, handle, pc, res, out, chanVars, arcVars, poisoned,
                   holder, crashed, resolved>>

\* The guard goes out of scope.
Unlock(p) ==
    /\ pc[p] = "holding"
    /\ pc' = [pc EXCEPT ![p] = "idle"]
    /\ holder' = 0
    /\ UNCHANGED <<flavor, handle, res, out, chanVars, arcVars, mval, poisoned,
                   wlog, crashed, resolved>>

\* The thread panics, for a reason of its own, while it holds the guard.
PanicHolding(p) ==
    /\ pc[p] = "holding"
    /\ pc' = [pc EXCEPT ![p] = "panicked"]
    /\ crashed' = TRUE
    /\ UNCHANGED <<flavor, handle, res, out, chanVars, arcVars, mval, poisoned,
                   holder, wlog, resolved>>

\* ------------------------------------------------ the implementing types
ChannelOps ==
    {"std_send", "std_recv", "tokio_mpsc_send", "tokio_mpsc_recv",
     "watch_send", "watch_recv", "oneshot_send", "oneshot_recv",
     "broadcast_send", "broadcast_recv"}

\* The operations impls.rs leaves out on purpose.
OmittedOps ==
    {"tokio_mpsc_recv", "oneshot_send", "broadcast_send", "broadcast_recv"}

\* What a channel may carry: plain types, and the error types themselves.
PayloadTypes ==
    {"i32", "()", "String"} \cup OrClosedErrTypes
        \cup {PoisonError, BroadcastSendError, BroadcastRecvError}

ResultOf(ok, err) == [ctor |-> "Result", ok |-> ok, err |-> err]
OptionOf(t) == [ctor |-> "Option", ok |-> t, err |-> "none"]

\* The type `op` returns on a channel of T.  An error type is named by its
\* head: its parameter is free in every impl.
ReturnType(op, T) ==
    CASE op = "std_send" -> ResultOf("()", StdSendError)
      [] op = "std_recv" -> ResultOf(T, StdRecvError)
      [] op = "tokio_mpsc_send" -> ResultOf("()", TokioMpscSendError)
      [] op = "tokio_mpsc_recv" -> OptionOf(T)
      [] op = "watch_send" -> ResultOf("()", WatchSendError)
      [] op = "watch_recv" -> ResultOf("()", WatchRecvError)
      [] op = "oneshot_send" -> ResultOf("()", T)
      [] op = "oneshot_recv" -> ResultOf(T, OneshotRecvError)
      [] op = "broadcast_send" -> ResultOf("usize", BroadcastSendError)
      [] op = "broadcast_recv" -> ResultOf(T, BroadcastRecvError)

\* A variant of ImplementsOrClosed with an impl for broadcast added.
ImplementsOrClosedBroadcast(ty) ==
    ty.ctor = "Result"
        /\ ty.err \in OrClosedErrTypes \cup {BroadcastSendError, BroadcastRecvError}

\* Whether some `impl OrClosed for Result<T, X>` of impls.rs matches ty.
ImplementsOrClosed(ty) ==
    ty.ctor = "Result" /\ ty.err \in OrClosedErrTypes

\* The compiler resolves .or_closed() on the result of `op`.
Resolve(op, T) ==
    /\ flavor = "types"
    /\ resolved' = [op |-> op, payload |-> T,
                    avail |-> ImplementsOrClosed(ReturnType(op, T))]
    /\ UNCHANGED <<flavor, handle, pc, res, out, chanVars, arcVars, lockVars>>

Next ==
    \/ \E p \in Procs, v \in Values : Send(p, v)
    \/ \E p \in Procs, v \in Values : OneshotSend(p, v)
    \/ \E p \in Procs : Recv(p)
    \/ \E p \in Procs : OptionRecv(p)
    \/ \E p, q \in Procs : Subscribe(p, q)
    \/ \E p \in Procs : CallOrClosed(p)
    \/ \E p, q \in Procs : Share(p, q)
    \/ \E p \in Procs, a \in Allocs : ArcNew(p, a)
    \/ \E p \in Procs : Drop(p)
    \/ \E p \in Procs : Unwind(p)
    \/ \E p \in Procs : Lock(p)
    \/ \E p \in Procs : CallOrPoisoned(p)
    \/ \E p \in Procs, w \in Writes : Write(p, w)
    \/ \E p \in Procs : Unlock(p)
    \/ \E p \in Procs : PanicHolding(p)
    \/ \E op \in ChannelOps, T \in PayloadTypes : Resolve(op, T)

Spec == Init /\ [][Next]_vars
\* --------------------------------------------------------------- claims
\* The message each claim names for the results of an operation.
ClaimedMessage(op) ==
    CASE op = "send" -> SEND_PANIC_MESSAGE
      [] op = "recv" -> RECV_PANIC_MESSAGE
      [] op = "lock" -> POISON_PANIC_MESSAGE

AllErrTypes == OrClosedErrTypes \cup {PoisonError}

\* A panic text that is msg, then ": ", then the {:?} of some error.
StartsWith(text, msg) ==
    \E e \in AllErrTypes : text = msg \o ": " \o DebugFmt(e)

\* p's trait method has consumed res[p] and left out[p].
Unwrapped(p) == out[p] # NoOut /\ res[p].op \in {"send", "recv", "lock"}

\* C1: on an Ok result every or_closed and or_poisoned returns exactly the
\* wrapped value and does not panic.
C1_IdentityOnSuccess ==
    \A p \in Procs :
        (Unwrapped(p) /\ res[p].tag = "Ok") => out[p] = Return(res[p].val)

C1_Witness ==
    \E p \in Procs :
        /\ res[p] = Ok("recv", 20, StdRecvError)
        /\ out[p] = Return(20)

\* C2 as claimed: on an Err result the panic carries exactly the constant
\* of the operation's kind, with nothing added to it.
C2_MessageExactly ==
    \A p \in Procs :
        (Unwrapped(p) /\ res[p].tag = "Err")
            => out[p] = Panic(ClaimedMessage(res[p].op))

\* C2 as amended: on an Err result the method panics and the panic message
\* is the constant of the operation's kind followed by ": " and the {:?}
\* rendering of the error; no impl uses the constant of another kind.
C2_MessagePrefix ==
    \A p \in Procs :
        (Unwrapped(p) /\ res[p].tag = "Err")
            => out[p] = Panic(ClaimedMessage(res[p].op) \o ": "
                                \o DebugFmt(res[p].ety))

C2_Witness ==
    \E p \in Procs :
        /\ res[p].tag = "Err" /\ res[p].ety = WatchRecvError
        /\ out[p].tag = "Panic"

\* C3: once a send (a receive) on a channel has returned Err, no later
\* send (receive) on that channel returns Ok.
C3_NoOkAfterErr == ~okAfterErr

\* C4: on a std mpsc channel with shared senders nothing sent is lost or
\* reordered, and recv().or_closed() aborts only when every sender is
\* dropped and every sent value has been received.
C4_SharedSendersAllReceived ==
    flavor = "std_mpsc" =>
        /\ sentLog = received \o buf
        /\ \A p \in Procs :
               (res[p].op = "recv" /\ out[p].tag = "Panic")
                   => /\ Senders = {}
                      /\ buf = <<>>
                      /\ received = sentLog
                      /\ StartsWith(out[p].text, RECV_PANIC_MESSAGE)

C4_Witness ==
    /\ flavor = "std_mpsc"
    /\ Len(sentLog) = 2 /\ Cardinality(sentBy) = 2
    /\ received = sentLog
    /\ Senders = {}
    /\ \E p \in Procs : res[p].op = "recv" /\ out[p].tag = "Panic"

\* p's step is a send / a receive that produces a result for or_closed.
SendStep(p) == pc[p] = "idle" /\ pc'[p] = "unwrap" /\ res'[p].op = "send"
RecvStep(p) == pc[p] = "idle" /\ pc'[p] = "unwrap" /\ res'[p].op = "recv"
UnwrapStep(p) == pc[p] = "unwrap" /\ pc'[p] # "unwrap"
NothingFor(p) == IF flavor = "tokio_watch" THEN p \notin unseen ELSE buf = <<>>

\* C5: a send made when no receiver is left returns Err and or_closed
\* aborts on it with the send-side message; a receive made when no sender
\* is left and nothing is buffered returns Err and or_closed aborts on it
\* with the receive-side message.
C5_ClosedChannelAborts ==
    [][\A p \in Procs :
          /\ (SendStep(p) /\ Receivers = {}) => res'[p].tag = "Err"
          /\ (RecvStep(p) /\ Senders = {} /\ NothingFor(p))
                 => res'[p].tag = "Err"
          /\ (UnwrapStep(p) /\ res[p].tag = "Err" /\ res[p].op \in {"send", "recv"})
                 => /\ pc'[p] = "panicked"
                    /\ out'[p].tag = "Panic"
                    /\ StartsWith(out'[p].text, ClaimedMessage(res[p].op))
      ]_vars

C5_Witness ==
    \E p \in Procs :
        /\ flavor = "std_mpsc" /\ Receivers = {}
        /\ pc[p] = "panicked" /\ res[p].op = "send"
        /\ StartsWith(out[p].text, SEND_PANIC_MESSAGE)

\* C6: while no thread has panicked holding the guard, no or_poisoned call
\* aborts, the mutex is not poisoned, and the protected value is the
\* initial 1 with every write made through a guard applied in order.
C6_NonPoisonedNeverAborts ==
    (flavor = "std_mutex" /\ ~crashed) =>
        /\ \A p \in Procs : out[p].tag # "Panic"
        /\ ~poisoned
        /\ mval = Eval(wlog)

C6_Witness ==
    /\ flavor = "std_mutex" /\ ~crashed
    /\ wlog = <<"set2", "add10">> /\ mval = 12
    /\ \E p \in Procs : pc[p] = "holding" /\ out[p] = Return(Guard)

\* q's step gives it a handle made by share.
ShareStep(q) == shared.to # q /\ shared'.to = q

\* C7: a handle made by share is the handle clone makes: it points to the
\* allocation the original points to, the strong count of an allocation
\* is the number of handles to it, and a share changes nothing but the new
\* handle and, by one, that count.
C7_ShareIsClone ==
    /\ [](/\ shared.to # 0
                => /\ handle[shared.to] = shared.from
                   /\ ptr_eq(handle[shared.to], shared.from)
          /\ \A a \in Allocs :
                strong[a] = Cardinality({p \in Procs : handle[p] = ArcTo(a)}))
    /\ [][\A q \in Procs :
             ShareStep(q) =>
                 /\ \E p \in Procs \ {q} : handle[p] = shared'.from
                 /\ handle' = [handle EXCEPT ![q] = shared'.from]
                 /\ strong' = IF shared'.from.kind = "arc"
                              THEN [strong EXCEPT ![shared'.from.id] = @ + 1]
                              ELSE strong
                 /\ UNCHANGED <<pc, res, out, buf, sentLog, sentBy, received,
                              lockVars>>
         ]_vars

C7_Witness ==
    /\ flavor = "arc"
    /\ \E q1, q2 \in Procs \ {1} :
          /\ q1 # q2 /\ shared = [from |-> ArcTo(1), to |-> q2]
          /\ handle[1] = ArcTo(1)
          /\ ptr_eq(handle[q1], handle[q2]) /\ ptr_eq(handle[q1], handle[1])
    /\ strong[1] = 3

\* C8 as claimed: or_closed is offered on the result of none of the
\* omitted operations, whatever the payload type.
C8_OmittedNeverOffered ==
    resolved.op \in OmittedOps => ~resolved.avail

\* C8 as amended: or_closed is offered on the result of none of the
\* omitted operations, except on a oneshot send whose payload type is
\* itself one of the error types OrClosed is implemented for.
C8_OmittedUnlessPayloadIsError ==
    (/\ resolved.op \in OmittedOps
     /\ ~(resolved.op = "oneshot_send" /\ resolved.payload \in OrClosedErrTypes))
        => ~resolved.avail

C8_Witness ==
    /\ resolved.op = "oneshot_send" /\ resolved.payload = "i32"
    /\ ~resolved.avail

\* C9: or_closed and or_poisoned can always be taken once the result is
\* there, and the step sends nothing, receives nothing, acquires no lock
\* and leaves the queue, the handles and the poison flag as they were.
C9_SingleStepStateless ==
    /\ [](\A p \in Procs :
             pc[p] = "unwrap" => ENABLED (CallOrClosed(p) \/ CallOrPoisoned(p)))
    /\ [][\A p \in Procs :
             UnwrapStep(p) =>
                 /\ UNCHANGED <<handle, res, buf, unseen, sentLog,
                                received, poisoned, mval>>
                 /\ holder' \in {holder, 0}
         ]_vars

C9_Witness ==
    \E p \in Procs :
        /\ pc[p] = "panicked" /\ res[p].op = "recv" /\ out[p].tag = "Panic"
        /\ \E q \in Procs : q # p /\ handle[q].kind = "rx"

\* C10: once a thread has panicked holding a guard, no later
\* lock().or_poisoned() returns a guard: each aborts with the poison
\* message, and the poison flag, once set, stays set.
C10_PoisonPermanent ==
    /\ [](crashed =>
             \A p \in Procs :
                 /\ pc[p] # "holding"
                 /\ pc[p] = "unwrap" => (poisoned /\ res[p].tag = "Err")
                 /\ (res[p].tag = "Err" /\ out[p] # NoOut)
                        => /\ out[p].tag = "Panic"
                           /\ StartsWith(out[p].text, POISON_PANIC_MESSAGE))
    /\ [][poisoned => poisoned']_vars

C10_Witness ==
    /\ crashed /\ poisoned
    /\ \E p \in Procs :
          /\ pc[p] = "panicked" /\ res[p] = Err("lock", Guard, PoisonError)
          /\ out[p].tag = "Panic"

=============================================================================
